---- MODULE Spec2Model ----
(***************************************************************************)
(* Model of backend/server.py of Financas-main: the three collections of   *)
(* the document store (transactions, fixed_expenses, alerts), the request  *)
(* handlers that write them, and the monthly report / annual dashboard     *)
(* computed from them.                                                     *)
(*                                                                         *)
(* Spec        requests are executed one at a time: one action per handler *)
(* SpecLong    the transaction handlers and the report, on a period with   *)
(*             more transactions than one query returns                    *)
(* SpecFixed   the fixed-expense handlers and the report, likewise         *)
(* SpecAlerts  concurrent create_alert_config calls, one action per store  *)
(*             operation (each await is a point where another call runs)   *)
(* SpecReport  one get_monthly_report call, one action per store query,     *)
(*             among the store operations of other requests                *)
(***************************************************************************)
EXTENDS Integers, Sequences, FiniteSets, TLC

VARIABLES
    transactions,    \* db.transactions, in natural (insertion) order
    fixed_expenses,  \* db.fixed_expenses, in natural order
    alerts,          \* db.alerts, in natural order
    nextId,          \* number of uuid4 identifiers handed out so far
    resp,            \* the response of the request that completed last
    calls,           \* the create_alert_config calls in flight, per client
    events,          \* the store operations of those calls, in execution order
    rpt,             \* the get_monthly_report call in flight: position and locals
    hist             \* what the store held while that call ran, as an observer
                     \* of the store sees it

vars == <<transactions, fixed_expenses, alerts, nextId, resp, calls, events, rpt, hist>>

-----------------------------------------------------------------------------
(* Bounds of the model *)

\* identifiers handed out in one behaviour of Spec (records ever created)
MaxIds == 2

\* significand width of the model's binary floating point (a double has 53)
MantissaBits == 3

\* length passed to to_list, scaled down from the source's 1000
ToListLength == 3

\* records created in one behaviour of SpecLong and of SpecFixed: one more
\* than a query returns
MaxLong == ToListLength + 1

\* records created in one behaviour of SpecReport
MaxConcIds == 2

\* concurrent create_alert_config calls
NumClients == 2

-----------------------------------------------------------------------------
(* Input domains *)

Periods == {<<1, 2024>>, <<2, 2025>>}
Years == {2024, 2025}
Tipos == {"receita", "despesa"}
Amounts == {1, 8}
Limits == {-1, 0, 8}
\* amounts and limits written by the requests that run beside a report call
ConcAmounts == {1}
ConcLimits == {0}
\* the period that report call asks for
ConcReportPeriods == {<<1, 2024>>}
Clients == 1..NumClients

\* Optional[...] values
None == <<>>
Some(x) == <<x>>

-----------------------------------------------------------------------------
(* float arithmetic: round to nearest, ties to even, MantissaBits bits *)

Abs(x) == IF x < 0 THEN -x ELSE x

RECURSIVE Quantum(_)
Quantum(a) == IF a < 2 ^ MantissaBits THEN 1 ELSE 2 * Quantum(a \div 2)

Round(x) ==
    LET a == Abs(x)
        q == Quantum(a)
        lo == (a \div q) * q
        r == a - lo
        m == IF 2 * r < q THEN lo
             ELSE IF 2 * r > q THEN lo + q
             ELSE IF (lo \div q) % 2 = 0 THEN lo ELSE lo + q
    IN  IF x < 0 THEN -m ELSE m

FAdd(x, y) == Round(x + y)
FSub(x, y) == Round(x - y)

\* sum(...) over a list: left to right from 0
RECURSIVE FSumFrom(_, _)
FSumFrom(acc, s) == IF s = <<>> THEN acc ELSE FSumFrom(FAdd(acc, Head(s)), Tail(s))
FSum(s) == FSumFrom(0, s)

\* (e.valor for e in s)
Valores(s) == [i \in 1..Len(s) |-> s[i].valor]

-----------------------------------------------------------------------------
(* Store operations *)

\* find({"mes": mes, "ano": ano})
Find(coll, mes, ano) == SelectSeq(coll, LAMBDA r : r.mes = mes /\ r.ano = ano)

\* cursor.to_list(length)
ToList(s, length) == IF Len(s) <= length THEN s ELSE SubSeq(s, 1, length)

\* find_one({"mes": mes, "ano": ano, "ativo": True}): the first match or None
FindOneActive(coll, mes, ano) ==
    LET m == SelectSeq(coll, LAMBDA r : r.mes = mes /\ r.ano = ano /\ r.ativo = TRUE)
    IN  IF m = <<>> THEN None ELSE Some(Head(m))

HasId(coll, id) == \E i \in 1..Len(coll) : coll[i].id = id
FirstWithId(coll, id) == CHOOSE i \in 1..Len(coll) :
                            /\ coll[i].id = id
                            /\ \A j \in 1..(i - 1) : coll[j].id # id

\* delete_one that removes the first record of the collection
DeleteOne_Head(coll, id) == IF HasId(coll, id) THEN Tail(coll) ELSE coll

\* delete_one({"id": id}): removes the first match
DeleteOne(coll, id) ==
    IF HasId(coll, id)
    THEN LET k == FirstWithId(coll, id)
         IN  SubSeq(coll, 1, k - 1) \o SubSeq(coll, k + 1, Len(coll))
    ELSE coll
DeletedCount(coll, id) == IF HasId(coll, id) THEN 1 ELSE 0

\* update_one({"id": id}, {"$set": {"pago": pago}}): updates the first match
UpdateOne(coll, id, pago) ==
    IF HasId(coll, id)
    THEN LET k == FirstWithId(coll, id)
         IN  [coll EXCEPT ![k] = [@ EXCEPT !.pago = pago]]
    ELSE coll
MatchedCount(coll, id) == IF HasId(coll, id) THEN 1 ELSE 0

\* find_one({"id": id})
FindOneById(coll, id) == IF HasId(coll, id) THEN Some(coll[FirstWithId(coll, id)]) ELSE None

\* delete_many with the filter's values swapped
DeleteMany_SwappedKeys(coll, mes, ano) ==
    SelectSeq(coll, LAMBDA r : ~(r.mes = ano /\ r.ano = mes))

\* delete_many({"mes": mes, "ano": ano})
DeleteMany(coll, mes, ano) == SelectSeq(coll, LAMBDA r : ~(r.mes = mes /\ r.ano = ano))

\* an insert that replaces the records of the document's period
InsertOne_Replace(coll, doc) ==
    Append(SelectSeq(coll, LAMBDA r : ~(r.mes = doc.mes /\ r.ano = doc.ano)), doc)

\* insert_one(doc)
InsertOne(coll, doc) == Append(coll, doc)

-----------------------------------------------------------------------------
(* Models (pydantic) *)

Transaction(id, tipo, valor, data) ==
    [id |-> id, tipo |-> tipo, valor |-> Round(valor), mes |-> data[1], ano |-> data[2]]

FixedExpense(id, valor, mes, ano) ==
    [id |-> id, valor |-> Round(valor), pago |-> FALSE, mes |-> mes, ano |-> ano]

\* a config that is created inactive
AlertConfig_Inactive(id, limite_mensal, mes, ano) ==
    [id |-> id, limite_mensal |-> Round(limite_mensal), mes |-> mes, ano |-> ano,
     ativo |-> FALSE]

AlertConfig(id, limite_mensal, mes, ano) ==
    [id |-> id, limite_mensal |-> Round(limite_mensal), mes |-> mes, ano |-> ano,
     ativo |-> TRUE]

-----------------------------------------------------------------------------
(* get_monthly_report: the computation after the three queries *)

IsReceita(t) == t.tipo = "receita"
IsDespesa(t) == t.tipo = "despesa"
IsPago(e) == e.pago
IsPendente(e) == ~e.pago

\* the limit counted as exceeded when it is only reached
LimiteExcedido_AtLeast(total_despesas_all, limite_configurado) ==
    total_despesas_all >= limite_configurado

LimiteExcedido(total_despesas_all, limite_configurado) ==
    total_despesas_all > limite_configurado

Saldo(total_receitas, total_despesas_all) == FSub(total_receitas, total_despesas_all)

MonthlyReport(mes, ano, trans_objects, fixed_expense_objects, alert_config) ==
    LET total_receitas == FSum(Valores(SelectSeq(trans_objects, IsReceita)))
        total_despesas == FSum(Valores(SelectSeq(trans_objects, IsDespesa)))
        total_despesas_fixas == FSum(Valores(fixed_expense_objects))
        despesas_fixas_pagas == FSum(Valores(SelectSeq(fixed_expense_objects, IsPago)))
        despesas_fixas_pendentes ==
            FSum(Valores(SelectSeq(fixed_expense_objects, IsPendente)))
        total_despesas_all == FAdd(total_despesas, total_despesas_fixas)
    IN  [mes |-> mes, ano |-> ano,
         total_receitas |-> total_receitas,
         total_despesas |-> total_despesas,
         saldo |-> Saldo(total_receitas, total_despesas_all),
         transacoes |-> trans_objects,
         despesas_fixas |-> fixed_expense_objects,
         total_despesas_fixas |-> total_despesas_fixas,
         despesas_fixas_pagas |-> despesas_fixas_pagas,
         despesas_fixas_pendentes |-> despesas_fixas_pendentes,
         limite_excedido |->
            IF alert_config # None
            THEN LimiteExcedido(total_despesas_all, alert_config[1].limite_mensal)
            ELSE FALSE,
         limite_configurado |->
            IF alert_config # None THEN Some(alert_config[1].limite_mensal) ELSE None]

\* queries that leave the period out of the filter
QueryFixedExpenses_AllPeriods(coll, mes, ano) == ToList(coll, ToListLength)
QueryAlert_AnyPeriod(coll, mes, ano) ==
    LET m == SelectSeq(coll, LAMBDA r : r.ativo = TRUE)
    IN  IF m = <<>> THEN None ELSE Some(Head(m))

\* the three queries of get_monthly_report
QueryTransactions(coll, mes, ano) == ToList(Find(coll, mes, ano), ToListLength)
QueryFixedExpenses(coll, mes, ano) == ToList(Find(coll, mes, ano), ToListLength)
QueryAlert(coll, mes, ano) == FindOneActive(coll, mes, ano)

\* the report of a request that runs with no other request in between
ReportOf(txs, fxs, als, mes, ano) ==
    MonthlyReport(mes, ano, QueryTransactions(txs, mes, ano),
                  QueryFixedExpenses(fxs, mes, ano), QueryAlert(als, mes, ano))

\* get_dashboard_data: one entry of dados_mensais
DashboardEntry(mes, report) ==
    [mes |-> mes,
     receitas |-> report.total_receitas,
     despesas |-> FAdd(report.total_despesas, report.total_despesas_fixas),
     despesas_variaveis |-> report.total_despesas,
     despesas_fixas |-> report.total_despesas_fixas,
     saldo |-> report.saldo]

\* range(1, 12)
DashboardMonths_To11 == [i \in 1..11 |-> i]

\* range(1, 13)
DashboardMonths == [i \in 1..12 |-> i]

DashboardData(txs, fxs, als, ano) ==
    [ano |-> ano,
     dados_mensais |->
        [i \in 1..Len(DashboardMonths) |->
            DashboardEntry(DashboardMonths[i],
                           ReportOf(txs, fxs, als, DashboardMonths[i], ano))]]

-----------------------------------------------------------------------------
(* What the claims speak of, stated on the records themselves *)

\* the records of a period, by position in the collection
Matching(coll, mes, ano) ==
    {i \in 1..Len(coll) : coll[i].mes = mes /\ coll[i].ano = ano}

\* the records of a period among the first ToListLength of them
Fetched(coll, mes, ano) ==
    {i \in Matching(coll, mes, ano) :
        Cardinality({j \in Matching(coll, mes, ano) : j < i}) < ToListLength}

ActiveConfigs(coll, mes, ano) == {i \in Matching(coll, mes, ano) : coll[i].ativo}

RECURSIVE SumTo(_, _)
SumTo(w, n) == IF n = 0 THEN 0 ELSE Round(SumTo(w, n - 1) + w[n])

\* the sum, in collection order, of the amounts of the rows that Keep accepts
Total(coll, rows, Keep(_)) ==
    SumTo([i \in 1..Len(coll) |->
              IF i \in rows /\ Keep(coll[i]) THEN coll[i].valor ELSE 0], Len(coll))

Income(txs, rows) == Total(txs, rows, LAMBDA t : t.tipo = "receita")
Variable(txs, rows) == Total(txs, rows, LAMBDA t : t.tipo = "despesa")
Fixed(fxs, rows) == Total(fxs, rows, LAMBDA e : TRUE)
FixedPaid(fxs, rows) == Total(fxs, rows, LAMBDA e : e.pago)
FixedPending(fxs, rows) == Total(fxs, rows, LAMBDA e : ~e.pago)

IsReport == resp.op = "get_monthly_report"

\* totals, balance, limit flag and limit of a report
Summary(b) ==
    <<b.total_receitas, b.total_despesas, b.total_despesas_fixas,
      b.despesas_fixas_pagas, b.despesas_fixas_pendentes, b.saldo,
      b.limite_excedido, b.limite_configurado>>

\* what the collections hold for a period: the totals of its first ToListLength
\* transactions, those of its first ToListLength fixed expenses, the limit of its
\* first active config
TransactionTotals(txs, mes, ano) ==
    <<Income(txs, Fetched(txs, mes, ano)), Variable(txs, Fetched(txs, mes, ano))>>
FixedTotals(fxs, mes, ano) ==
    <<Fixed(fxs, Fetched(fxs, mes, ano)), FixedPaid(fxs, Fetched(fxs, mes, ano)),
      FixedPending(fxs, Fetched(fxs, mes, ano))>>
ActiveLimit(als, mes, ano) ==
    LET cf == ActiveConfigs(als, mes, ano)
    IN  IF cf = {} THEN <<>>
        ELSE <<als[CHOOSE i \in cf : \A j \in cf : i <= j].limite_mensal>>

\* the same, from the transactions, fixed expenses and alerts a call was given
SummaryOf(txs, fxs, als, mes, ano) ==
    LET rt == Fetched(txs, mes, ano)
        rf == Fetched(fxs, mes, ano)
        cf == ActiveConfigs(als, mes, ano)
        first == CHOOSE i \in cf : \A j \in cf : i <= j
        all == Round(Variable(txs, rt) + Fixed(fxs, rf))
    IN  <<Income(txs, rt), Variable(txs, rt), Fixed(fxs, rf), FixedPaid(fxs, rf),
          FixedPending(fxs, rf), Round(Income(txs, rt) - all),
          cf # {} /\ all > als[first].limite_mensal,
          IF cf = {} THEN <<>> ELSE <<als[first].limite_mensal>>>>

-----------------------------------------------------------------------------
(* State after construction *)

NoResp == [op |-> "none", status |-> 0, req |-> <<>>, body |-> <<>>]
IdleCall == [pc |-> "idle", alert_obj |-> None]
IdleRpt == [pc |-> "idle", mes |-> 0, ano |-> 0, transactions |-> <<>>,
            fixed_expenses |-> <<>>]

\* summaries: the summary, for the call's period, of every content the store
\* had since the call's first query; queried: what the collection read by each
\* query so far held for that period when it was read
NoHist == [summaries |-> {}, queried |-> <<>>]

Init ==
    /\ transactions = <<>>
    /\ fixed_expenses = <<>>
    /\ alerts = <<>>
    /\ nextId = 0
    /\ resp = NoResp
    /\ calls = [c \in Clients |-> IdleCall]
    /\ events = <<>>
    /\ rpt = IdleRpt
    /\ hist = NoHist

Store == [transactions |-> transactions, fixed_expenses |-> fixed_expenses,
          alerts |-> alerts]

-----------------------------------------------------------------------------
(* Handlers, each run to completion *)

create_transaction(max) ==
    \E tipo \in Tipos, valor \in Amounts, data \in Periods :
        /\ nextId < max
        /\ LET trans_obj == Transaction(nextId + 1, tipo, valor, data)
           IN  /\ transactions' = InsertOne(transactions, trans_obj)
               /\ resp' = [op |-> "create_transaction", status |-> 200,
                           req |-> <<tipo, valor, data>>, body |-> trans_obj]
        /\ nextId' = nextId + 1
        /\ UNCHANGED <<fixed_expenses, alerts, calls, events, rpt, hist>>

delete_transaction ==
    \E transaction_id \in 1..MaxIds :
        /\ transactions' = DeleteOne(transactions, transaction_id)
        /\ resp' = [op |-> "delete_transaction",
                    status |-> IF DeletedCount(transactions, transaction_id) = 0
                               THEN 404 ELSE 200,
                    req |-> <<transaction_id>>, body |-> <<>>]
        /\ UNCHANGED <<fixed_expenses, alerts, nextId, calls, events, rpt, hist>>

create_fixed_expense(max) ==
    \E valor \in Amounts, p \in Periods :
        /\ nextId < max
        /\ LET expense_obj == FixedExpense(nextId + 1, valor, p[1], p[2])
           IN  /\ fixed_expenses' = InsertOne(fixed_expenses, expense_obj)
               /\ resp' = [op |-> "create_fixed_expense", status |-> 200,
                           req |-> <<valor, p>>, body |-> expense_obj]
        /\ nextId' = nextId + 1
        /\ UNCHANGED <<transactions, alerts, calls, events, rpt, hist>>

update_fixed_expense ==
    \E expense_id \in 1..MaxIds, pago \in BOOLEAN :
        /\ fixed_expenses' = UpdateOne(fixed_expenses, expense_id, pago)
        /\ resp' = IF MatchedCount(fixed_expenses, expense_id) = 0
                   THEN [op |-> "update_fixed_expense", status |-> 404,
                         req |-> <<expense_id, pago>>, body |-> <<>>]
                   ELSE LET expense == FindOneById(fixed_expenses', expense_id)
                        IN  IF expense # None
                            THEN [op |-> "update_fixed_expense", status |-> 200,
                                  req |-> <<expense_id, pago>>, body |-> expense[1]]
                            ELSE [op |-> "update_fixed_expense", status |-> 404,
                                  req |-> <<expense_id, pago>>, body |-> <<>>]
        /\ UNCHANGED <<transactions, alerts, nextId, calls, events, rpt, hist>>

delete_fixed_expense ==
    \E expense_id \in 1..MaxIds :
        /\ fixed_expenses' = DeleteOne(fixed_expenses, expense_id)
        /\ resp' = [op |-> "delete_fixed_expense",
                    status |-> IF DeletedCount(fixed_expenses, expense_id) = 0
                               THEN 404 ELSE 200,
                    req |-> <<expense_id>>, body |-> <<>>]
        /\ UNCHANGED <<transactions, alerts, nextId, calls, events, rpt, hist>>

create_alert_config ==
    \E limite_mensal \in Limits, p \in Periods :
        /\ nextId < MaxIds
        /\ LET alert_obj == AlertConfig(nextId + 1, limite_mensal, p[1], p[2])
           IN  /\ alerts' = InsertOne(DeleteMany(alerts, p[1], p[2]), alert_obj)
               /\ resp' = [op |-> "create_alert_config", status |-> 200,
                           req |-> <<limite_mensal, p>>, body |-> alert_obj,
                           \* the result of delete_many, which the handler drops
                           deleted_count |->
                               Len(alerts) - Len(DeleteMany(alerts, p[1], p[2]))]
        /\ nextId' = nextId + 1
        /\ UNCHANGED <<transactions, fixed_expenses, calls, events, rpt, hist>>

get_monthly_report ==
    \E p \in Periods :
        /\ resp' = [op |-> "get_monthly_report", status |-> 200, req |-> p,
                    body |-> ReportOf(transactions, fixed_expenses, alerts, p[1], p[2])]
        /\ UNCHANGED <<transactions, fixed_expenses, alerts, nextId, calls, events,
                       rpt, hist>>

get_dashboard_data ==
    \E ano \in Years :
        /\ resp' = [op |-> "get_dashboard_data", status |-> 200, req |-> <<ano>>,
                    body |-> DashboardData(transactions, fixed_expenses, alerts, ano)]
        /\ UNCHANGED <<transactions, fixed_expenses, alerts, nextId, calls, events,
                       rpt, hist>>

Next ==
    \/ create_transaction(MaxIds)
    \/ delete_transaction
    \/ create_fixed_expense(MaxIds)
    \/ update_fixed_expense
    \/ delete_fixed_expense
    \/ create_alert_config
    \/ get_monthly_report
    \/ get_dashboard_data

Spec == Init /\ [][Next]_vars

-----------------------------------------------------------------------------
(* A period with more records than one query returns *)

NextLong ==
    \/ create_transaction(MaxLong)
    \/ get_monthly_report

SpecLong == Init /\ [][NextLong]_vars

NextFixed ==
    \/ create_fixed_expense(MaxLong)
    \/ update_fixed_expense
    \/ delete_fixed_expense
    \/ get_monthly_report

SpecFixed == Init /\ [][NextFixed]_vars

-----------------------------------------------------------------------------
(* Concurrent requests: one action per store operation.  A handler with one *)
(* store operation is that operation; create_alert_config and               *)
(* get_monthly_report await several and can be overtaken in between.        *)

InReport == rpt.pc \in {"fixed", "alert"}

\* a store write by another request, before the report call or while it is in
\* flight; the run of one report call is followed to its return
Write(txs, fxs, als) ==
    /\ rpt.pc # "done"
    /\ transactions' = txs
    /\ fixed_expenses' = fxs
    /\ alerts' = als
    /\ hist' = IF InReport
               THEN [hist EXCEPT !.summaries =
                        @ \cup {SummaryOf(txs, fxs, als, rpt.mes, rpt.ano)}]
               ELSE hist

\* create_transaction: insert_one
conc_create_transaction ==
    \E tipo \in Tipos, valor \in ConcAmounts, data \in Periods :
        /\ nextId < MaxConcIds
        /\ Write(InsertOne(transactions, Transaction(nextId + 1, tipo, valor, data)),
                 fixed_expenses, alerts)
        /\ nextId' = nextId + 1
        /\ UNCHANGED <<resp, calls, events, rpt>>

\* delete_transaction: delete_one
conc_delete_transaction ==
    \E transaction_id \in 1..MaxConcIds :
        /\ DeletedCount(transactions, transaction_id) # 0
        /\ Write(DeleteOne(transactions, transaction_id), fixed_expenses, alerts)
        /\ UNCHANGED <<nextId, resp, calls, events, rpt>>

\* create_fixed_expense: insert_one
conc_create_fixed_expense ==
    \E valor \in ConcAmounts, p \in Periods :
        /\ nextId < MaxConcIds
        /\ Write(transactions,
                 InsertOne(fixed_expenses, FixedExpense(nextId + 1, valor, p[1], p[2])),
                 alerts)
        /\ nextId' = nextId + 1
        /\ UNCHANGED <<resp, calls, events, rpt>>

\* update_fixed_expense: update_one, where it changes the flag (the find_one
\* after it writes nothing)
conc_update_fixed_expense ==
    \E expense_id \in 1..MaxConcIds, pago \in BOOLEAN :
        /\ MatchedCount(fixed_expenses, expense_id) # 0
        /\ UpdateOne(fixed_expenses, expense_id, pago) # fixed_expenses
        /\ Write(transactions, UpdateOne(fixed_expenses, expense_id, pago), alerts)
        /\ UNCHANGED <<nextId, resp, calls, events, rpt>>

\* delete_fixed_expense: delete_one
conc_delete_fixed_expense ==
    \E expense_id \in 1..MaxConcIds :
        /\ DeletedCount(fixed_expenses, expense_id) # 0
        /\ Write(transactions, DeleteOne(fixed_expenses, expense_id), alerts)
        /\ UNCHANGED <<nextId, resp, calls, events, rpt>>

\* create_alert_config: delete_many, where it removes something
conc_delete_alerts ==
    \E p \in Periods :
        /\ DeleteMany(alerts, p[1], p[2]) # alerts
        /\ Write(transactions, fixed_expenses, DeleteMany(alerts, p[1], p[2]))
        /\ UNCHANGED <<nextId, resp, calls, events, rpt>>

\* create_alert_config: insert_one, of a call whose delete_many ran before
conc_insert_alert ==
    \E limite_mensal \in ConcLimits, p \in Periods :
        /\ nextId < MaxConcIds
        /\ Write(transactions, fixed_expenses,
                 InsertOne(alerts, AlertConfig(nextId + 1, limite_mensal, p[1], p[2])))
        /\ nextId' = nextId + 1
        /\ UNCHANGED <<resp, calls, events, rpt>>

\* create_alert_config up to its first await: delete_many.  Clients are
\* numbered in the order in which their calls start.
create_alert_config_delete(c) ==
    \E limite_mensal \in Limits, p \in Periods :
        /\ calls[c].pc = "idle"
        /\ \A b \in Clients : b < c => calls[b].pc # "idle"
        /\ LET alert_obj == AlertConfig(nextId + 1, limite_mensal, p[1], p[2])
           IN  calls' = [calls EXCEPT ![c] = [pc |-> "insert",
                                               alert_obj |-> Some(alert_obj)]]
        /\ Write(transactions, fixed_expenses, DeleteMany(alerts, p[1], p[2]))
        /\ events' = Append(events, <<c, "delete_many">>)
        /\ nextId' = nextId + 1
        /\ UNCHANGED <<resp, rpt>>

\* create_alert_config after delete_many returned: insert_one, return alert_obj
create_alert_config_insert(c) ==
    /\ calls[c].pc = "insert"
    /\ Write(transactions, fixed_expenses, InsertOne(alerts, calls[c].alert_obj[1]))
    /\ calls' = [calls EXCEPT ![c].pc = "done"]
    /\ events' = Append(events, <<c, "insert_one">>)
    /\ UNCHANGED <<nextId, resp, rpt>>

\* get_monthly_report up to its first await: the transactions of the month
report_query_transactions ==
    \E p \in ConcReportPeriods :
        /\ rpt.pc = "idle"
        /\ rpt' = [pc |-> "fixed", mes |-> p[1], ano |-> p[2],
                   transactions |-> QueryTransactions(transactions, p[1], p[2]),
                   fixed_expenses |-> <<>>]
        /\ hist' = [summaries |->
                        {SummaryOf(transactions, fixed_expenses, alerts, p[1], p[2])},
                    queried |->
                        <<TransactionTotals(transactions, p[1], p[2])>>]
        /\ resp' = NoResp
        /\ UNCHANGED <<transactions, fixed_expenses, alerts, nextId, calls, events>>

\* ... the fixed expenses of the month
report_query_fixed_expenses ==
    /\ rpt.pc = "fixed"
    /\ rpt' = [rpt EXCEPT !.pc = "alert",
                          !.fixed_expenses =
                              QueryFixedExpenses(fixed_expenses, rpt.mes, rpt.ano)]
    /\ hist' = [hist EXCEPT !.queried =
                    Append(@, FixedTotals(fixed_expenses, rpt.mes, rpt.ano))]
    /\ UNCHANGED <<transactions, fixed_expenses, alerts, nextId, resp, calls, events>>

\* ... the alert of the month, then the totals and the response
report_query_alert ==
    /\ rpt.pc = "alert"
    /\ rpt' = [rpt EXCEPT !.pc = "done"]
    /\ resp' = [op |-> "get_monthly_report", status |-> 200,
                req |-> <<rpt.mes, rpt.ano>>,
                body |-> MonthlyReport(rpt.mes, rpt.ano, rpt.transactions,
                                       rpt.fixed_expenses,
                                       QueryAlert(alerts, rpt.mes, rpt.ano))]
    /\ hist' = [hist EXCEPT !.queried =
                    Append(@, ActiveLimit(alerts, rpt.mes, rpt.ano))]
    /\ UNCHANGED <<transactions, fixed_expenses, alerts, nextId, calls, events>>

NextAlerts ==
    \/ \E c \in Clients : create_alert_config_delete(c)
    \/ \E c \in Clients : create_alert_config_insert(c)

SpecAlerts == Init /\ [][NextAlerts]_vars

NextReport ==
    \/ conc_create_transaction
    \/ conc_delete_transaction
    \/ conc_create_fixed_expense
    \/ conc_update_fixed_expense
    \/ conc_delete_fixed_expense
    \/ conc_delete_alerts
    \/ conc_insert_alert
    \/ report_query_transactions
    \/ report_query_fixed_expenses
    \/ report_query_alert

SpecReport == Init /\ [][NextReport]_vars

-----------------------------------------------------------------------------
\* A report returned with no request in between is the summary of the first
\* ToListLength transactions and fixed expenses of the period.
ReportIsSummaryOfFetched ==
    IsReport =>
        Summary(resp.body) =
            SummaryOf(transactions, fixed_expenses, alerts, resp.body.mes, resp.body.ano)

-----------------------------------------------------------------------------
\* C1: a report's total income, total variable expense and total fixed expense
\* are the sums of the amounts of all transactions of the period of kind income,
\* of all of kind expense and of all its fixed expenses, and its balance is
\* income - (variable + fixed); other periods contribute nothing.
C1_ReportTotals ==
    IsReport =>
        LET b == resp.body
            rt == Matching(transactions, b.mes, b.ano)
            rf == Matching(fixed_expenses, b.mes, b.ano)
        IN  /\ b.total_receitas = Income(transactions, rt)
            /\ b.total_despesas = Variable(transactions, rt)
            /\ b.total_despesas_fixas = Fixed(fixed_expenses, rf)
            /\ b.saldo = Round(Income(transactions, rt)
                               - Round(Variable(transactions, rt)
                                       + Fixed(fixed_expenses, rf)))

\* C2: with an active config for the period, limite_configurado is its limit and
\* limite_excedido holds exactly when variable + fixed expense is strictly
\* greater than the limit; with none, limite_excedido is false and
\* limite_configurado is null.
C2_LimitFlag ==
    IsReport =>
        LET b == resp.body
            cf == ActiveConfigs(alerts, b.mes, b.ano)
        IN  IF cf # {}
            THEN \A i \in cf :
                    /\ b.limite_configurado = <<alerts[i].limite_mensal>>
                    /\ b.limite_excedido <=>
                           (Round(b.total_despesas + b.total_despesas_fixas)
                                > alerts[i].limite_mensal)
            ELSE /\ b.limite_excedido = FALSE
                 /\ b.limite_configurado = <<>>

\* a report whose expense equals the configured limit, and is not flagged
C2_AtLimit ==
    /\ IsReport
    /\ resp.body.limite_configurado # <<>>
    /\ resp.body.limite_configurado[1]
           = Round(resp.body.total_despesas + resp.body.total_despesas_fixas)
    /\ resp.body.total_despesas > 0
    /\ ~resp.body.limite_excedido

\* C3: in every report, fixed paid + fixed pending = total fixed.
C3_PaidPlusPending ==
    IsReport =>
        Round(resp.body.despesas_fixas_pagas + resp.body.despesas_fixas_pendentes)
            = resp.body.total_despesas_fixas

\* C4: with requests executed one at a time, every period has at most one
\* config, and right after create_alert_config returns the period holds exactly
\* the config just created, active, with the new limit.
C4_OneConfigPerPeriod ==
    /\ \A p \in Periods : Cardinality(Matching(alerts, p[1], p[2])) <= 1
    /\ resp.op = "create_alert_config" =>
           LET p == resp.req[2]
           IN  /\ \A i \in Matching(alerts, p[1], p[2]) : alerts[i] = resp.body
               /\ Cardinality(Matching(alerts, p[1], p[2])) = 1
               /\ resp.body.ativo = TRUE
               /\ resp.body.limite_mensal = Round(resp.req[1])
               /\ resp.body.mes = p[1] /\ resp.body.ano = p[2]

\* a create_alert_config that replaced the config the period had
C4_Replaced ==
    /\ resp.op = "create_alert_config"
    /\ resp.deleted_count = 1

\* C5: the dashboard has 12 entries, for the months 1..12 in order, each the
\* projection of that month's report, and all zero for a month with no records.
C5_Dashboard ==
    resp.op = "get_dashboard_data" =>
        LET d == resp.body.dados_mensais
            ano == resp.req[1]
        IN  /\ resp.body.ano = ano
            /\ Len(d) = 12
            /\ \A m \in 1..12 :
                 LET r == ReportOf(transactions, fixed_expenses, alerts, m, ano)
                 IN  /\ d[m].mes = m
                     /\ d[m].receitas = r.total_receitas
                     /\ d[m].despesas_variaveis = r.total_despesas
                     /\ d[m].despesas_fixas = r.total_despesas_fixas
                     /\ d[m].despesas = Round(r.total_despesas + r.total_despesas_fixas)
                     /\ d[m].saldo = r.saldo
                     /\ d[m].saldo = Round(d[m].receitas - d[m].despesas)
                     /\ (/\ Matching(transactions, m, ano) = {}
                         /\ Matching(fixed_expenses, m, ano) = {})
                        => /\ d[m].receitas = 0 /\ d[m].despesas = 0
                           /\ d[m].despesas_variaveis = 0 /\ d[m].despesas_fixas = 0
                           /\ d[m].saldo = 0

\* a dashboard of a year with income and fixed expense in one of its months
C5_MixedYear ==
    /\ resp.op = "get_dashboard_data"
    /\ \E m \in 1..12 :
         /\ resp.body.dados_mensais[m].receitas > 0
         /\ resp.body.dados_mensais[m].despesas_fixas > 0
         /\ resp.body.dados_mensais[m].saldo # 0

-----------------------------------------------------------------------------
(* create_alert_config calls that overlap *)

CallsFor(p) ==
    {c \in Clients : /\ calls[c].pc # "idle"
                     /\ calls[c].alert_obj[1].mes = p[1]
                     /\ calls[c].alert_obj[1].ano = p[2]}

Completed(p) == \A c \in CallsFor(p) : calls[c].pc = "done"

Pos(c, op) == CHOOSE k \in 1..Len(events) : events[k] = <<c, op>>

\* each call ran its delete_many before the other ran its insert_one
Raced(c, d) ==
    /\ Pos(c, "delete_many") < Pos(d, "insert_one")
    /\ Pos(d, "delete_many") < Pos(c, "insert_one")

NumActive(p) == Cardinality(ActiveConfigs(alerts, p[1], p[2]))

\* C6: two create_alert_config calls for one period that both run delete_many
\* before either runs insert_one leave the period with two active configs.
C6_RaceLeavesTwo ==
    \A p \in Periods : \A c \in CallsFor(p) : \A d \in CallsFor(p) :
        (/\ c # d
         /\ Cardinality(CallsFor(p)) = 2
         /\ Completed(p)
         /\ Raced(c, d)) => NumActive(p) = 2

\* both calls for one period have completed and the period holds two configs
C6_TwoConfigs ==
    \E p \in Periods :
        /\ Cardinality(CallsFor(p)) = 2
        /\ Completed(p)
        /\ NumActive(p) = 2

\* C7 as claimed: two overlapping calls for one period, once both have completed,
\* leave the period with no active config.
C7_LeavesZero ==
    \A p \in Periods :
        (Cardinality(CallsFor(p)) = 2 /\ Completed(p)) => NumActive(p) = 0

\* C7 as amended: once both calls for one period have completed, the period
\* holds one or two active configs, never none.
C7_NeverZero ==
    \A p \in Periods :
        (Cardinality(CallsFor(p)) = 2 /\ Completed(p)) => NumActive(p) \in {1, 2}

\* both calls for one period have completed and the period holds one config
C7_OneConfig ==
    \E p \in Periods :
        /\ Cardinality(CallsFor(p)) = 2
        /\ Completed(p)
        /\ NumActive(p) = 1

-----------------------------------------------------------------------------
EmptyPeriod(mes, ano) ==
    /\ Matching(transactions, mes, ano) = {}
    /\ Matching(fixed_expenses, mes, ano) = {}

AllTotalsZero(b) ==
    /\ b.total_receitas = 0 /\ b.total_despesas = 0 /\ b.total_despesas_fixas = 0
    /\ b.despesas_fixas_pagas = 0 /\ b.despesas_fixas_pendentes = 0 /\ b.saldo = 0

\* C8 as claimed: the report of a period with no transactions and no fixed
\* expenses has all totals zero and limite_excedido false, whatever config exists.
C8_EmptyNeverExceeds ==
    (IsReport /\ EmptyPeriod(resp.body.mes, resp.body.ano)) =>
        /\ AllTotalsZero(resp.body)
        /\ resp.body.limite_excedido = FALSE

\* C8 as amended: such a report has all totals zero, and limite_excedido holds
\* exactly when the period's active config has a limit below zero.
C8_EmptyExceedsBelowZero ==
    (IsReport /\ EmptyPeriod(resp.body.mes, resp.body.ano)) =>
        /\ AllTotalsZero(resp.body)
        /\ resp.body.limite_excedido <=>
              \E i \in ActiveConfigs(alerts, resp.body.mes, resp.body.ano) :
                  alerts[i].limite_mensal < 0

\* the report of an empty period whose config has a negative limit
C8_NegativeLimit ==
    /\ IsReport
    /\ EmptyPeriod(resp.body.mes, resp.body.ano)
    /\ resp.body.limite_configurado # <<>>
    /\ resp.body.limite_configurado[1] < 0
    /\ resp.body.limite_excedido

-----------------------------------------------------------------------------
Without(coll, id) == SelectSeq(coll, LAMBDA r : r.id # id)
Known(coll, id) == \E i \in 1..Len(coll) : coll[i].id = id

C9_Step ==
    /\ resp'.op = "delete_transaction" =>
          /\ UNCHANGED <<fixed_expenses, alerts>>
          /\ IF Known(transactions, resp'.req[1])
             THEN /\ resp'.status = 200
                  /\ transactions' = Without(transactions, resp'.req[1])
                  /\ Len(transactions') = Len(transactions) - 1
             ELSE /\ resp'.status = 404
                  /\ transactions' = transactions
    /\ resp'.op = "delete_fixed_expense" =>
          /\ UNCHANGED <<transactions, alerts>>
          /\ IF Known(fixed_expenses, resp'.req[1])
             THEN /\ resp'.status = 200
                  /\ fixed_expenses' = Without(fixed_expenses, resp'.req[1])
                  /\ Len(fixed_expenses') = Len(fixed_expenses) - 1
             ELSE /\ resp'.status = 404
                  /\ fixed_expenses' = fixed_expenses
    /\ resp'.op = "update_fixed_expense" =>
          /\ UNCHANGED <<transactions, alerts>>
          /\ IF Known(fixed_expenses, resp'.req[1])
             THEN /\ resp'.status = 200
                  /\ Len(fixed_expenses') = Len(fixed_expenses)
                  /\ \A i \in 1..Len(fixed_expenses) :
                        IF fixed_expenses[i].id = resp'.req[1]
                        THEN /\ fixed_expenses'[i] =
                                   [fixed_expenses[i] EXCEPT !.pago = resp'.req[2]]
                             /\ resp'.body = fixed_expenses'[i]
                        ELSE fixed_expenses'[i] = fixed_expenses[i]
             ELSE /\ resp'.status = 404
                  /\ fixed_expenses' = fixed_expenses

-----------------------------------------------------------------------------
\* C10 as claimed: the report a call returns is the report of one store content
\* that existed between the call's first query and its return.
C10_OneStoreState ==
    rpt.pc = "done" => Summary(resp.body) \in hist.summaries

\* C10 as amended: the report is computed from the transactions as stored at the
\* call's first query, the fixed expenses as stored at its second query and the
\* alert as stored at its third query.
C10_OneStatePerQuery ==
    rpt.pc = "done" =>
        LET b == resp.body
            all == Round(b.total_despesas + b.total_despesas_fixas)
        IN  /\ <<b.total_receitas, b.total_despesas>> = hist.queried[1]
            /\ <<b.total_despesas_fixas, b.despesas_fixas_pagas,
                  b.despesas_fixas_pendentes>> = hist.queried[2]
            /\ b.limite_configurado = hist.queried[3]
            /\ b.saldo = Round(b.total_receitas - all)
            /\ b.limite_excedido <=>
                  (hist.queried[3] # <<>> /\ all > hist.queried[3][1])

\* a returned report that is the report of no store content of its call
C10_TornReport ==
    /\ rpt.pc = "done"
    /\ Summary(resp.body) \notin hist.summaries

-----------------------------------------------------------------------------
\* an update_fixed_expense that found its record, the record as it was stored
\* before the update, and the report of the record's period before and after
Updated == resp'.op = "update_fixed_expense" /\ resp'.status = 200
UpdatedRecord ==
    fixed_expenses[CHOOSE i \in 1..Len(fixed_expenses) :
                       fixed_expenses[i].id = resp'.req[1]]
ReportBefore ==
    ReportOf(transactions, fixed_expenses, alerts, UpdatedRecord.mes, UpdatedRecord.ano)
ReportAfter ==
    ReportOf(transactions', fixed_expenses', alerts', UpdatedRecord.mes,
             UpdatedRecord.ano)

\* the update changes the paid flag of that record and nothing else in the store
OnlyPaidFlagChanged ==
    /\ UNCHANGED <<transactions, alerts>>
    /\ Len(fixed_expenses') = Len(fixed_expenses)
    /\ \A i \in 1..Len(fixed_expenses) :
          IF fixed_expenses[i].id = resp'.req[1]
          THEN fixed_expenses'[i] = [fixed_expenses[i] EXCEPT !.pago = resp'.req[2]]
          ELSE fixed_expenses'[i] = fixed_expenses[i]

\* the report's fixed total, balance, limit flag and configured limit are the same
SameTotals ==
    /\ ReportAfter.total_despesas_fixas = ReportBefore.total_despesas_fixas
    /\ ReportAfter.saldo = ReportBefore.saldo
    /\ ReportAfter.limite_excedido = ReportBefore.limite_excedido
    /\ ReportAfter.limite_configurado = ReportBefore.limite_configurado

\* paid and pending move by the record's amount, in opposite directions, when the
\* flag flips, and stay when the flag is set to the value it had
PaidAndPendingMoveByAmount ==
    IF resp'.req[2] = UpdatedRecord.pago
    THEN /\ ReportAfter.despesas_fixas_pagas = ReportBefore.despesas_fixas_pagas
         /\ ReportAfter.despesas_fixas_pendentes = ReportBefore.despesas_fixas_pendentes
    ELSE IF resp'.req[2]
    THEN /\ ReportAfter.despesas_fixas_pagas =
               FAdd(ReportBefore.despesas_fixas_pagas, UpdatedRecord.valor)
         /\ ReportAfter.despesas_fixas_pendentes =
               FSub(ReportBefore.despesas_fixas_pendentes, UpdatedRecord.valor)
    ELSE /\ ReportAfter.despesas_fixas_pagas =
               FSub(ReportBefore.despesas_fixas_pagas, UpdatedRecord.valor)
         /\ ReportAfter.despesas_fixas_pendentes =
               FAdd(ReportBefore.despesas_fixas_pendentes, UpdatedRecord.valor)

\* the part of C11 that does not depend on how paid and pending are summed
C11_FrameAndTotals == [][Updated => OnlyPaidFlagChanged /\ SameTotals]_vars

\* C11: update_fixed_expense on an existing id changes only the paid flag of that
\* one record; the report of the record's period has the same fixed total,
\* balance, limit flag and configured limit before and after, and its paid and
\* pending amounts move by exactly the record's amount in opposite directions
\* when the flag flips and not at all when it is set to its current value.
C11_UpdateFrameEffect ==
    [][Updated => OnlyPaidFlagChanged /\ SameTotals /\ PaidAndPendingMoveByAmount]_vars

====
